---- MODULE Spec2Model ----
(***************************************************************************)
(* Record store (bookings.csv / contacts.csv), webhook dispatch and Kanban *)
(* projection of the Streamlit booking tool, src/app.py.                   *)
(*                                                                         *)
(* A CSV file is modelled by its header and its rows of text cells; a      *)
(* pandas DataFrame by its columns and its rows of cells, a cell being a   *)
(* text or the float NaN.  pd.read_csv and DataFrame.to_csv are modelled   *)
(* by what they do to a cell: read_csv turns the NA tokens (the empty      *)
(* field among them) into NaN, to_csv writes NaN as the empty field.       *)
(* CSV quoting is lossless for every other text and is not modelled.       *)
(***************************************************************************)
EXTENDS Integers, Sequences, FiniteSets, TLC

\* ------------------------------------------------------------------ bounds

\* A form submission is taken while the table holds fewer rows than this.
MaxRows == 2
\* Number of uuid4 values drawn in one behaviour.
MaxUuid == 2
\* Largest number of data rows in an uploaded CSV.
MaxUploadRows == 2
\* Number of Kanban status changes in one behaviour.
MaxChanges == 1

\* --------------------------------------------------------------- constants

KANBAN_STATI == <<"Ny", "Pagaende", "Klar", "Arkiv">>

BOOKING_COLUMNS ==
  <<"id", "skapad", "kund", "uppdrag", "datum", "tid", "plats", "ersattning", "status">>

CONTACT_COLUMNS ==
  <<"id", "skapad", "namn", "telefon", "foretag", "mail", "kommentar", "status">>

\* The float NaN pandas holds for a missing cell: not a text.
NaN == "<NaN>"

\* Texts pd.read_csv takes for a missing value (keep_default_na, also under dtype=str).
NA_VALUES ==
  {"", "#N/A", "#N/A N/A", "#NA", "-1.#IND", "-1.#QNAN", "-NaN", "-nan", "1.#IND",
   "1.#QNAN", "<NA>", "N/A", "NA", "NULL", "NaN", "None", "n/a", "nan", "null"}

\* ----------------------------------------------------------------- helpers

Range(s) == {s[i] : i \in DOMAIN s}

SeqsUpTo(S, n) == UNION {[1..k -> S] : k \in 0..n}

\* str.strip() on the texts the forms are fed with.
strip(t) ==
  CASE t = " " -> ""
    [] t = " Acme " -> "Acme"
    [] t = "Bo " -> "Bo"
    [] OTHER -> t

\* str.lower() on the column names the uploads use.
lower(c) ==
  CASE c = "ID" -> "id"
    [] c = "Skapad" -> "skapad"
    [] c = "Kund" -> "kund"
    [] c = "UPPDRAG" -> "uppdrag"
    [] c = "Datum" -> "datum"
    [] c = "Tid" -> "tid"
    [] c = "Plats" -> "plats"
    [] c = "Ersattning" -> "ersattning"
    [] c = "Status" -> "status"
    [] c = "Notes" -> "notes"
    [] OTHER -> c

\* One cell as pd.read_csv(..., dtype=str) parses it.
read_cell(t) == IF t \in NA_VALUES THEN NaN ELSE t

\* One cell as DataFrame.to_csv writes it (na_rep is the empty text).
write_cell_dash(v) == IF v = NaN THEN "-" ELSE v

write_cell(v) == IF v = NaN THEN "" ELSE v

\* pd.read_csv: the frame of a CSV text.
read_csv(file) ==
  [cols |-> file.cols,
   rows |-> [i \in DOMAIN file.rows |->
               [c \in DOMAIN file.rows[i] |-> read_cell(file.rows[i][c])]]]

\* DataFrame.to_csv(path, index=False): the file a frame is written as.
to_csv(df) ==
  [exists |-> TRUE,
   cols |-> df.cols,
   rows |-> [i \in DOMAIN df.rows |->
               [c \in DOMAIN df.rows[i] |-> write_cell(df.rows[i][c])]]]

NoFile == [exists |-> FALSE, cols |-> <<>>, rows |-> <<>>]

\* ensure_data_store, for one of its two files: created with its header if absent.
ensure_data_store(file, columns) ==
  IF file.exists THEN file ELSE [exists |-> TRUE, cols |-> columns, rows |-> <<>>]

\* The status fallback of load_bookings / load_contacts.
fill_status(df) ==
  LET withcol ==
        IF "status" \in Range(df.cols) THEN df
        ELSE [cols |-> Append(df.cols, "status"),
              rows |-> [i \in DOMAIN df.rows |->
                          [c \in Range(df.cols) \cup {"status"} |->
                             IF c = "status" THEN "Ny" ELSE df.rows[i][c]]]]
  IN [cols |-> withcol.cols,
      rows |-> [i \in DOMAIN withcol.rows |->
                  [withcol.rows[i] EXCEPT !["status"] = IF @ = NaN THEN "Ny" ELSE @]]]

load_bookings(file) == fill_status(read_csv(ensure_data_store(file, BOOKING_COLUMNS)))

load_contacts(file) == fill_status(read_csv(ensure_data_store(file, CONTACT_COLUMNS)))

save_bookings(df) == to_csv(df)

save_contacts(dfc) == to_csv(dfc)

\* pd.concat([df, pd.DataFrame([row])], ignore_index=True), row's keys among df's columns.
concat(df, row) ==
  [cols |-> df.cols,
   rows |-> Append(df.rows,
                   [c \in Range(df.cols) |-> IF c \in DOMAIN row THEN row[c] ELSE NaN])]

append_booking(file, row) == save_bookings(concat(load_bookings(file), row))

append_contact(file, row) == save_contacts(concat(load_contacts(file), row))

\* ------------------------------------------------------------ form inputs

\* datetime.now().isoformat(timespec="seconds") at the submission.
NOW_ISO == "2025-05-01T12:00:00"

\* What the booking form can be submitted with: texts as typed (blank, padded,
\* an NA token), a date and a time as their widgets hand them over.
BookingInputs ==
  [kund : {" ", " Acme ", "NA"}, uppdrag : {"", "Gig"}, plats : {" ", "Sthlm"},
   ersattning : {""}, datum : {"2025-06-01"}, tid : {"14:30"}]

ContactInputs ==
  [namn : {" ", "Bo "}, telefon : {""}, foretag : {""},
   mail : {"", "bo@x.se"}, kommentar : {""}]

\* str(uuid.uuid4()): the n-th value drawn; no two draws agree.
uuid4(n) == "u" \o ToString(n)

\* The validation of the booking form: one message per blank required field.
booking_errors_first(inp) ==
  IF strip(inp.kund) = "" THEN <<"Kund saknas.">>
  ELSE IF strip(inp.uppdrag) = "" THEN <<"Uppdrag saknas.">>
  ELSE IF strip(inp.plats) = "" THEN <<"Plats saknas.">>
  ELSE <<>>

booking_errors(inp) ==
  (IF strip(inp.kund) = "" THEN <<"Kund saknas.">> ELSE <<>>)
  \o (IF strip(inp.uppdrag) = "" THEN <<"Uppdrag saknas.">> ELSE <<>>)
  \o (IF strip(inp.plats) = "" THEN <<"Plats saknas.">> ELSE <<>>)

contact_errors(inp) ==
  (IF strip(inp.namn) = "" THEN <<"Namn saknas.">> ELSE <<>>)
  \o (IF strip(inp.mail) = "" THEN <<"Mail saknas.">> ELSE <<>>)

\* The row dict the booking form builds.
booking_row(booking_id, now_iso, inp) ==
  [id |-> booking_id, skapad |-> now_iso, kund |-> strip(inp.kund),
   uppdrag |-> strip(inp.uppdrag), datum |-> inp.datum, tid |-> inp.tid,
   plats |-> strip(inp.plats), ersattning |-> strip(inp.ersattning), status |-> "Ny"]

\* The row dict the contact form builds.
contact_row(cid, now_iso, inp) ==
  [id |-> cid, skapad |-> now_iso, namn |-> strip(inp.namn),
   telefon |-> strip(inp.telefon), foretag |-> strip(inp.foretag),
   mail |-> strip(inp.mail), kommentar |-> strip(inp.kommentar), status |-> "Ny"]

\* ---------------------------------------------------------------- webhook

MAKE_URL == "https://hook.eu2.make.com/b3errrh3g6qttaxya7b8ge1egggwiqs6"

\* What requests.post can do: answer with a status code, or raise.
Responses ==
  {[raises |-> FALSE, status_code |-> s] : s \in {199, 200, 299, 300, 500}}
    \cup {[raises |-> TRUE, status_code |-> 0]}

\* send_to_make: (ok, message kind), whether a POST was made, whether it raised.
send_to_make_unguarded(webhook_url, resp) ==
  IF webhook_url = ""
  THEN [ok |-> FALSE, kind |-> "no_url", posted |-> FALSE, raised |-> FALSE]
  ELSE IF resp.raises
  THEN [ok |-> FALSE, kind |-> "exception", posted |-> TRUE, raised |-> TRUE]
  ELSE IF 200 <= resp.status_code /\ resp.status_code < 300
  THEN [ok |-> TRUE, kind |-> "ok", posted |-> TRUE, raised |-> FALSE]
  ELSE [ok |-> FALSE, kind |-> "status", posted |-> TRUE, raised |-> FALSE]

send_to_make(webhook_url, resp) ==
  IF webhook_url = ""
  THEN [ok |-> FALSE, kind |-> "no_url", posted |-> FALSE, raised |-> FALSE]
  ELSE IF resp.raises
  THEN [ok |-> FALSE, kind |-> "exception", posted |-> TRUE, raised |-> FALSE]
  ELSE IF 200 <= resp.status_code /\ resp.status_code < 300
  THEN [ok |-> TRUE, kind |-> "ok", posted |-> TRUE, raised |-> FALSE]
  ELSE [ok |-> FALSE, kind |-> "status", posted |-> TRUE, raised |-> FALSE]

\* ----------------------------------------------------------------- Kanban

\* The rows of all_items: bookings first, then contacts, each with its typ and
\* its index in its own frame.
cards_of(df, typ) ==
  [i \in DOMAIN df.rows |->
     [typ |-> typ, idx |-> i, id |-> df.rows[i]["id"], status |-> df.rows[i]["status"]]]

all_items(df, dfc) == cards_of(df, "Bokning") \o cards_of(dfc, "Kontakt")

\* all_items[all_items["status"] == status]
subset(items, status) == SelectSeq(items, LAMBDA c : c.status = status)

\* The cards in the order the page renders them: column by column.
rendered(items) ==
  subset(items, KANBAN_STATI[1]) \o subset(items, KANBAN_STATI[2])
    \o subset(items, KANBAN_STATI[3]) \o subset(items, KANBAN_STATI[4])

\* key=f"status_{row['typ']}_{row['id']}"
widget_key(card) == <<card.typ, card.id>>

\* The cards whose selectbox is on the page: Streamlit stops the script with
\* DuplicateWidgetID at the first card whose key an earlier card has used.
selectable(items) ==
  LET r == rendered(items)
      ok(k) == \A i \in 1..k : \A j \in 1..k : i # j => widget_key(r[i]) # widget_key(r[j])
  IN {k \in DOMAIN r : ok(k)}

\* df.loc[df["id"] == id, "status"] = new_status  (NaN equals nothing)
set_status(df, id, new_status) ==
  [cols |-> df.cols,
   rows |-> [i \in DOMAIN df.rows |->
               IF id # NaN /\ df.rows[i]["id"] # NaN /\ df.rows[i]["id"] = id
               THEN [df.rows[i] EXCEPT !["status"] = new_status]
               ELSE df.rows[i]]]

\* ----------------------------------------------------------- export/import

\* df.to_csv(index=False) of the loaded bookings, as an upload.
export_csv(file) ==
  LET out == to_csv(load_bookings(file))
  IN [parses |-> TRUE, cols |-> out.cols, rows |-> out.rows]

required_cols ==
  {"id", "skapad", "kund", "uppdrag", "datum", "tid", "plats", "ersattning", "status"}

\* required_cols.issubset({c.lower() for c in new_df.columns})
has_required_cols_exact(cols) == required_cols \subseteq Range(cols)

has_required_cols(cols) == required_cols \subseteq {lower(c) : c \in Range(cols)}

\* new_df.columns = lowered; new_df = new_df[[the nine columns]]
select_columns(new_df) ==
  [cols |-> BOOKING_COLUMNS,
   rows |-> [i \in DOMAIN new_df.rows |->
               [c \in Range(BOOKING_COLUMNS) |->
                  new_df.rows[i][CHOOSE d \in Range(new_df.cols) : lower(d) = c]]]]

\* The uploads: a header and rows of text cells, or bytes read_csv cannot parse.
Unparsable == [parses |-> FALSE, cols |-> <<>>, rows |-> <<>>]

\* The headers of the uploads: every required column, in another order and
\* another case, beside a column the tool does not know; and one without the
\* id and status columns.  (The tool's own header comes in with its exports.)
UploadHeaders ==
  {<<"Status", "Notes", "Ersattning", "Plats", "Tid", "Datum", "UPPDRAG", "Kund",
     "Skapad", "ID">>,
   <<"Skapad", "Kund", "UPPDRAG", "Datum", "Tid", "Plats", "Ersattning">>}

UploadRow(h, id, status) ==
  [c \in Range(h) |->
     CASE lower(c) = "id" -> id
       [] lower(c) = "status" -> status
       [] lower(c) = "skapad" -> "2025-04-01T08:00:00"
       [] lower(c) = "kund" -> "Acme"
       [] lower(c) = "uppdrag" -> "Gig"
       [] lower(c) = "datum" -> "2025-06-01"
       [] lower(c) = "tid" -> "09:00"
       [] lower(c) = "plats" -> "Sthlm"
       [] OTHER -> ""]

\* The data rows of the uploads: one with an id and a status outside the four,
\* and one with neither id nor status.
UploadRows(h) == {UploadRow(h, "a", "Foo"), UploadRow(h, "", "")}

Uploads ==
  UNION {{[parses |-> TRUE, cols |-> h, rows |-> rs] :
            rs \in SeqsUpTo(UploadRows(h), MaxUploadRows)} : h \in UploadHeaders}
    \cup {Unparsable}

\* The import of "Export / Import": what it shows for an uploaded file.
import_result(uploaded) ==
  IF ~uploaded.parses THEN "read_error"
  ELSE IF ~has_required_cols(read_csv(uploaded).cols) THEN "schema_error"
  ELSE "imported"

\* The frame the import saves when it accepts the file.
imported_frame(uploaded) == select_columns(read_csv(uploaded))

\* bookings.csv after the import (load_bookings has run as the page opened).
imported_file(uploaded, file) ==
  IF import_result(uploaded) = "imported"
  THEN save_bookings(imported_frame(uploaded))
  ELSE ensure_data_store(file, BOOKING_COLUMNS)

\* import_result and the saved file of every upload, evaluated once.
ImportOf ==
  [uploaded \in Uploads |->
     [result |-> import_result(uploaded),
      file |-> imported_file(uploaded, NoFile)]]

\* ------------------------------------------------------------------- state

\* The browser sessions of the concurrent specification.
Sessions == {"s1", "s2"}

VARIABLES
  bookings,           \* data/bookings.csv
  contacts,           \* data/contacts.csv
  default_make_url,   \* DEFAULT_MAKE_URL: the secret MAKE_WEBHOOK_URL, or the built-in URL
  uuid_count,         \* uuid4 values drawn so far
  pc,                 \* "idle", or "notify": a form has saved its row and not yet sent it
  row,                \* the row dict of the submission, or the card, being handled
  sent,               \* calls of send_to_make in the last submission
  posts,              \* requests.post calls in the last submission
  last,               \* what the last script run did and showed
  changes,            \* Kanban status changes so far
  session,            \* per session: where its script run stands, and its DataFrame
  acked               \* ids of the bookings a session has shown "Bokningen sparades." for

vars == <<bookings, contacts, default_make_url, uuid_count, pc, row, sent, posts, last,
          changes, session, acked>>

NoRow == [id |-> NaN]

NoFrame == [cols |-> <<>>, rows |-> <<>>]

Idle == [at |-> "idle", df |-> NoFrame, id |-> NaN]

Shown(op, outcome, errors, upload) ==
  [op |-> op, outcome |-> outcome, errors |-> errors, upload |-> upload]

Init ==
  /\ bookings = NoFile
  /\ contacts = NoFile
  /\ default_make_url \in {"", MAKE_URL}
  /\ uuid_count = 0
  /\ pc = "idle"
  /\ row = NoRow
  /\ sent = 0
  /\ posts = 0
  /\ last = Shown("start", "", <<>>, Unparsable)
  /\ changes = 0
  /\ session = [s \in Sessions |-> Idle]
  /\ acked = {}

\* ------------------------------------------------- one session, run by run

\* "Spara bokning": validation, then append_booking; the webhook follows.
booking_form(inp) ==
  /\ pc = "idle"
  /\ sent' = 0 /\ posts' = 0
  /\ UNCHANGED <<default_make_url, changes, session, acked>>
  /\ LET errors == booking_errors(inp)
     IN \/ /\ errors # <<>>
           /\ last' = Shown("booking_form", "error", errors, Unparsable)
           /\ row' = NoRow
           /\ UNCHANGED <<bookings, contacts, uuid_count, pc>>
        \/ /\ errors = <<>>
           /\ uuid_count < MaxUuid
           /\ Len(load_bookings(bookings).rows) < MaxRows
           /\ uuid_count' = uuid_count + 1
           /\ row' = booking_row(uuid4(uuid_count'), NOW_ISO, inp)
           /\ bookings' = append_booking(bookings, row')
           /\ contacts' = ensure_data_store(contacts, CONTACT_COLUMNS)
           /\ pc' = "notify"
           /\ last' = Shown("booking_form", "saved", <<>>, Unparsable)

\* "Skicka forfragan": validation, then append_contact; the webhook follows.
contact_form(inp) ==
  /\ pc = "idle"
  /\ sent' = 0 /\ posts' = 0
  /\ UNCHANGED <<default_make_url, changes, session, acked>>
  /\ LET cerrs == contact_errors(inp)
     IN \/ /\ cerrs # <<>>
           /\ last' = Shown("contact_form", "error", cerrs, Unparsable)
           /\ row' = NoRow
           /\ UNCHANGED <<bookings, contacts, uuid_count, pc>>
        \/ /\ cerrs = <<>>
           /\ uuid_count < MaxUuid
           /\ Len(load_contacts(contacts).rows) < MaxRows
           /\ uuid_count' = uuid_count + 1
           /\ row' = contact_row(uuid4(uuid_count'), NOW_ISO, inp)
           /\ contacts' = append_contact(contacts, row')
           /\ bookings' = ensure_data_store(bookings, BOOKING_COLUMNS)
           /\ pc' = "notify"
           /\ last' = Shown("contact_form", "saved", <<>>, Unparsable)

\* The rest of a successful submission: send_to_make is called with the URL of
\* the sidebar (make_url, as the user left the field) or else the default one,
\* and its message is shown; resp is what the network does if a POST is made.
notify(make_url, resp) ==
  /\ pc = "notify"
  /\ LET webhook_url == IF make_url # "" THEN make_url ELSE default_make_url
         res == send_to_make(webhook_url, resp)
     IN /\ sent' = sent + 1
        /\ posts' = posts + (IF res.posted THEN 1 ELSE 0)
        /\ last' = Shown("send_to_make", IF res.raised THEN "raised" ELSE res.kind,
                         <<>>, Unparsable)
  /\ pc' = "idle"
  /\ UNCHANGED <<bookings, contacts, default_make_url, uuid_count, row, changes,
                 session, acked>>

\* A page that only loads and shows: Kanban untouched, "Alla bokningar",
\* "Export / Import" without an upload, "Installningar".
view_page ==
  /\ pc = "idle"
  /\ bookings' = ensure_data_store(bookings, BOOKING_COLUMNS)
  /\ contacts' = ensure_data_store(contacts, CONTACT_COLUMNS)
  /\ last' = Shown("view", "", <<>>, Unparsable)
  /\ row' = NoRow /\ sent' = 0 /\ posts' = 0
  /\ UNCHANGED <<default_make_url, uuid_count, pc, changes, session, acked>>

\* Kanban: the selectbox of the k-th rendered card is set to new_status; the
\* frame loaded as the page opened is changed and saved, and the script reruns.
kanban_change(k, new_status) ==
  /\ pc = "idle"
  /\ changes < MaxChanges
  /\ changes' = changes + 1
  /\ LET df == load_bookings(bookings)
         dfc == load_contacts(contacts)
         items == all_items(df, dfc)
     IN /\ k \in selectable(items)
        /\ LET card == rendered(items)[k]
           IN /\ new_status # card.status
              /\ IF card.typ = "Bokning"
                 THEN /\ bookings' = save_bookings(set_status(df, card.id, new_status))
                      /\ contacts' = ensure_data_store(contacts, CONTACT_COLUMNS)
                 ELSE /\ contacts' = save_contacts(set_status(dfc, card.id, new_status))
                      /\ bookings' = ensure_data_store(bookings, BOOKING_COLUMNS)
              /\ row' = [id |-> card.id, typ |-> card.typ, idx |-> card.idx]
              /\ last' = Shown("kanban", "rerun", <<>>, Unparsable)
  /\ sent' = 0 /\ posts' = 0
  /\ UNCHANGED <<default_make_url, uuid_count, pc, session, acked>>

\* "Export / Import" with a file in the uploader.
import_csv(uploaded) ==
  /\ pc = "idle"
  /\ bookings' = IF ImportOf[uploaded].result = "imported"
                 THEN ImportOf[uploaded].file
                 ELSE ensure_data_store(bookings, BOOKING_COLUMNS)
  /\ contacts' = ensure_data_store(contacts, CONTACT_COLUMNS)
  /\ last' = Shown("import", ImportOf[uploaded].result, <<>>, uploaded)
  /\ row' = NoRow /\ sent' = 0 /\ posts' = 0
  /\ UNCHANGED <<default_make_url, uuid_count, pc, changes, session, acked>>

\* "Ladda ner CSV", and the downloaded file put into the uploader.
export_then_import ==
  /\ pc = "idle"
  /\ LET uploaded == export_csv(bookings)
     IN /\ bookings' = imported_file(uploaded, bookings)
        /\ last' = Shown("reimport", import_result(uploaded), <<>>, uploaded)
  /\ contacts' = ensure_data_store(contacts, CONTACT_COLUMNS)
  /\ row' = NoRow /\ sent' = 0 /\ posts' = 0
  /\ UNCHANGED <<default_make_url, uuid_count, pc, changes, session, acked>>

\* The whole tool, one session.
Next ==
  \/ \E inp \in BookingInputs : booking_form(inp)
  \/ \E inp \in ContactInputs : contact_form(inp)
  \/ \E make_url \in {"", MAKE_URL} : \E resp \in Responses : notify(make_url, resp)
  \/ view_page
  \/ \E k \in 1..(2 * MaxRows + MaxUploadRows) :
       \E i \in DOMAIN KANBAN_STATI : kanban_change(k, KANBAN_STATI[i])
  \/ \E uploaded \in Uploads : import_csv(uploaded)
  \/ export_then_import

Spec == Init /\ [][Next]_vars

\* The "Ny post" page alone: the two forms and their webhook.
FormNext ==
  \/ \E inp \in BookingInputs : booking_form(inp)
  \/ \E inp \in ContactInputs : contact_form(inp)
  \/ \E make_url \in {"", MAKE_URL} : \E resp \in Responses : notify(make_url, resp)

FormSpec == Init /\ [][FormNext]_vars

\* Bookings entered by the form, exported and imported.
ImportNext ==
  \/ \E inp \in BookingInputs : booking_form(inp)
  \/ \E make_url \in {"", MAKE_URL} : \E resp \in Responses : notify(make_url, resp)
  \/ view_page
  \/ \E uploaded \in Uploads : import_csv(uploaded)
  \/ export_then_import

ImportSpec == Init /\ [][ImportNext]_vars

\* ------------------------------------------- two sessions, step by step

\* append_booking up to its load: the session holds the loaded frame with the
\* new row appended.
append_load(s, inp) ==
  /\ session[s].at = "idle"
  /\ booking_errors(inp) = <<>>
  /\ uuid_count < MaxUuid
  /\ Len(load_bookings(bookings).rows) < MaxRows
  /\ uuid_count' = uuid_count + 1
  /\ LET new_row == booking_row(uuid4(uuid_count'), NOW_ISO, inp)
     IN session' = [session EXCEPT ![s] =
                      [at |-> "append", df |-> concat(load_bookings(bookings), new_row),
                       id |-> new_row.id]]
  /\ bookings' = ensure_data_store(bookings, BOOKING_COLUMNS)
  /\ contacts' = ensure_data_store(contacts, CONTACT_COLUMNS)
  /\ UNCHANGED <<default_make_url, pc, row, sent, posts, last, changes, acked>>

\* append_booking's save_bookings, and the success message after it.
append_save_reloading(s) ==
  /\ session[s].at = "append"
  /\ bookings' = save_bookings(concat(load_bookings(bookings),
                                      session[s].df.rows[Len(session[s].df.rows)]))
  /\ acked' = acked \cup {session[s].id}
  /\ session' = [session EXCEPT ![s] = Idle]
  /\ UNCHANGED <<contacts, default_make_url, uuid_count, pc, row, sent, posts, last,
                 changes>>

append_save(s) ==
  /\ session[s].at = "append"
  /\ bookings' = save_bookings(session[s].df)
  /\ acked' = acked \cup {session[s].id}
  /\ session' = [session EXCEPT ![s] = Idle]
  /\ UNCHANGED <<contacts, default_make_url, uuid_count, pc, row, sent, posts, last,
                 changes>>

\* The Kanban page up to the change of a booking card in the loaded frame.
kanban_load(s, k, new_status) ==
  /\ session[s].at = "idle"
  /\ changes < MaxChanges
  /\ changes' = changes + 1
  /\ LET df == load_bookings(bookings)
         items == all_items(df, load_contacts(contacts))
     IN /\ k \in selectable(items)
        /\ rendered(items)[k].typ = "Bokning"
        /\ new_status # rendered(items)[k].status
        /\ session' = [session EXCEPT ![s] =
                         [at |-> "kanban",
                          df |-> set_status(df, rendered(items)[k].id, new_status),
                          id |-> rendered(items)[k].id]]
  /\ bookings' = ensure_data_store(bookings, BOOKING_COLUMNS)
  /\ contacts' = ensure_data_store(contacts, CONTACT_COLUMNS)
  /\ UNCHANGED <<default_make_url, uuid_count, pc, row, sent, posts, last, acked>>

\* The Kanban page's save_bookings(df).
kanban_save(s) ==
  /\ session[s].at = "kanban"
  /\ bookings' = save_bookings(session[s].df)
  /\ session' = [session EXCEPT ![s] = Idle]
  /\ UNCHANGED <<contacts, default_make_url, uuid_count, pc, row, sent, posts, last,
                 changes, acked>>

ConcNext ==
  \/ \E s \in Sessions : \E inp \in BookingInputs : append_load(s, inp)
  \/ \E s \in Sessions : append_save(s)
  \/ \E s \in Sessions : \E k \in 1..MaxRows :
       \E i \in DOMAIN KANBAN_STATI : kanban_load(s, k, KANBAN_STATI[i])
  \/ \E s \in Sessions : kanban_save(s)

ConcSpec == Init /\ [][ConcNext]_vars

\* ------------------------------------------------------------------ claims

\* The ids of a frame's rows, the missing ones left out.
Ids(df) == {df.rows[i]["id"] : i \in DOMAIN df.rows} \ {NaN}

\* A loaded cell holds what was submitted; an empty text may come back missing.
Intact(submitted, loaded) == loaded = submitted \/ (submitted = "" /\ loaded = NaN)

\* Two sequences hold the same records, whatever their order.
SameRecords(a, b) ==
  \A r \in Range(a) \cup Range(b) :
    Cardinality({i \in DOMAIN a : a[i] = r}) = Cardinality({i \in DOMAIN b : b[i] = r})

\* The row of the last submission is in the table it was appended to.
RowStored ==
  IF "kund" \in DOMAIN row THEN row.id \in Ids(load_bookings(bookings))
  ELSE row.id \in Ids(load_contacts(contacts))

\* after is before with one row appended that holds the submitted row r.
AppendedIntact(before, after, r) ==
  /\ Len(after.rows) = Len(before.rows) + 1
  /\ SubSeq(after.rows, 1, Len(before.rows)) = before.rows
  /\ \A c \in DOMAIN r : Intact(r[c], after.rows[Len(after.rows)][c])
  /\ r.id \notin Ids(before)
  /\ after.rows[Len(after.rows)]["skapad"] # NaN
  /\ after.rows[Len(after.rows)]["status"] = "Ny"

\* C1: a submission with no blank required field, appended and loaded again,
\* comes back as the last record with every submitted field intact, a fresh id,
\* a created_at and the status Ny, after the earlier records in their order.
C1_AppendThenLoad ==
  [][(last'.outcome = "saved" /\ last'.op = "booking_form"
        => AppendedIntact(load_bookings(bookings), load_bookings(bookings'), row'))
     /\ (last'.outcome = "saved" /\ last'.op = "contact_form"
        => AppendedIntact(load_contacts(contacts), load_contacts(contacts'), row'))]_vars

\* C4: every record load returns has one of the four statuses.
C4_StatusInEnum ==
  /\ \A i \in DOMAIN load_bookings(bookings).rows :
       load_bookings(bookings).rows[i]["status"] \in Range(KANBAN_STATI)
  /\ \A i \in DOMAIN load_contacts(contacts).rows :
       load_contacts(contacts).rows[i]["status"] \in Range(KANBAN_STATI)

\* C5: the four columns of the board hold every loaded record exactly once.
C5_BoardPartition ==
  LET items == all_items(load_bookings(bookings), load_contacts(contacts))
  IN /\ Len(rendered(items)) = Len(items)
     /\ \A i \in DOMAIN items :
          Cardinality({k \in DOMAIN KANBAN_STATI :
                         \E j \in DOMAIN subset(items, KANBAN_STATI[k]) :
                           subset(items, KANBAN_STATI[k])[j] = items[i]}) = 1

\* No two rows of the frame have the same id (a missing id is no id).
UniqueIds(df) ==
  \A i \in DOMAIN df.rows : \A j \in DOMAIN df.rows :
    i # j /\ df.rows[i]["id"] # NaN => df.rows[i]["id"] # df.rows[j]["id"]

\* C9: no two records of a table have the same id.
C9_UniqueIds == UniqueIds(load_bookings(bookings)) /\ UniqueIds(load_contacts(contacts))

\* The required fields of a form that are blank after trimming, and their messages.
Blank(inp, required) == {f \in required : strip(inp[f]) = ""}

Message(f) ==
  CASE f = "kund" -> "Kund saknas."
    [] f = "uppdrag" -> "Uppdrag saknas."
    [] f = "plats" -> "Plats saknas."
    [] f = "namn" -> "Namn saknas."
    [] f = "mail" -> "Mail saknas."

\* The step shows one message for each field of blank and nothing else, writes
\* neither table and leaves no webhook call to follow.
Rejected(blank) ==
  /\ last'.outcome = "error"
  /\ {last'.errors[i] : i \in DOMAIN last'.errors} = {Message(f) : f \in blank}
  /\ Len(last'.errors) = Cardinality(blank)
  /\ UNCHANGED <<bookings, contacts>>
  /\ pc' = "idle" /\ sent' = 0 /\ posts' = 0

\* C2: a submission with a blank required field shows exactly the messages of
\* its blank required fields, changes neither table and sends nothing.
C2_BlankFieldsRejected ==
  [][/\ \A inp \in BookingInputs :
          booking_form(inp) /\ Blank(inp, {"kund", "uppdrag", "plats"}) # {}
            => Rejected(Blank(inp, {"kund", "uppdrag", "plats"}))
     /\ \A inp \in ContactInputs :
          contact_form(inp) /\ Blank(inp, {"namn", "mail"}) # {}
            => Rejected(Blank(inp, {"namn", "mail"}))]_vars

\* A booking form with several blank required fields has been rejected.
C2_Witness ==
  /\ last.op = "booking_form"
  /\ last.outcome = "error"
  /\ Len(last.errors) >= 2

\* The Kanban change of the record id in the frame before: an id of no record
\* is refused and nothing changes; otherwise one record changes, in its status.
StatusUpdated(before, after, id) ==
  IF id \notin Ids(before)
  THEN last'.outcome = "NotFoundError" /\ after = before
  ELSE /\ Len(after.rows) = Len(before.rows)
       /\ \E i \in DOMAIN before.rows :
            /\ before.rows[i]["id"] = id
            /\ \A j \in DOMAIN before.rows : j # i => after.rows[j] = before.rows[j]
            /\ \A c \in DOMAIN before.rows[i] :
                 c # "status" => after.rows[i][c] = before.rows[i][c]

\* C3: a status change of an id no record has fails with NotFoundError and
\* changes nothing; of a known id it changes the status of that one record and
\* nothing else in either table.
C3_StatusChangeFrame ==
  [][last'.op = "kanban" =>
       IF row'.typ = "Bokning"
       THEN /\ StatusUpdated(load_bookings(bookings), load_bookings(bookings'), row'.id)
            /\ load_contacts(contacts') = load_contacts(contacts)
       ELSE /\ StatusUpdated(load_contacts(contacts), load_contacts(contacts'), row'.id)
            /\ load_bookings(bookings') = load_bookings(bookings)]_vars

\* The cell of row r of an upload under the column that lower-cases to c, as
\* a loaded table shows it.
Imported(u, r, c) ==
  LET text == r[CHOOSE d \in Range(u.cols) : lower(d) = c]
  IN IF text \in NA_VALUES THEN (IF c = "status" THEN "Ny" ELSE NaN) ELSE text

MissesColumn(u) == \E c \in required_cols : \A d \in Range(u.cols) : lower(d) # c

\* What each upload that parses should leave in the table, worked out from the
\* upload alone: whether it is refused, and the required columns of its rows.
Expected ==
  [u \in {x \in Uploads : x.parses} |->
     [refused |-> MissesColumn(u),
      rows    |-> IF MissesColumn(u) THEN << >>
                  ELSE [i \in DOMAIN u.rows |->
                          [c \in required_cols |-> Imported(u, u.rows[i], c)]]]]

\* C6: an upload missing a required column (whatever the case of the names) is
\* refused with the schema error and the table stays as it was; an upload with
\* every required column replaces the table by its own records.
C6_ImportReplacesOrRejects ==
  [][last'.op = "import" /\ last'.upload.parses =>
       LET e == Expected[last'.upload]
           after == load_bookings(bookings')
       IN IF e.refused
          THEN /\ last'.outcome = "schema_error"
               /\ bookings'.rows = bookings.rows
               /\ after = load_bookings(bookings)
          ELSE /\ last'.outcome = "imported"
               /\ after.cols = BOOKING_COLUMNS
               /\ [i \in DOMAIN after.rows |->
                     [c \in required_cols |-> after.rows[i][c]]] = e.rows]_vars

\* An upload without the status column has been refused while bookings are stored.
C6_Witness ==
  /\ last.op = "import"
  /\ last.outcome = "schema_error"
  /\ Len(last.upload.rows) > 0
  /\ Len(bookings.rows) > 0

\* C7: the export of the bookings, imported again, is accepted and leaves the
\* loaded table with the same records.
C7_ExportImportRoundTrip ==
  [][last'.op = "reimport" =>
       /\ last'.outcome = "imported"
       /\ load_bookings(bookings').cols = load_bookings(bookings).cols
       /\ SameRecords(load_bookings(bookings').rows, load_bookings(bookings).rows)]_vars

\* An export has been imported again over bookings with missing cells, one of
\* them stored by the form and one of them with a status outside the four.
C7_Witness ==
  /\ last.op = "reimport"
  /\ \E i \in DOMAIN load_bookings(bookings).rows :
       /\ load_bookings(bookings).rows[i]["kund"] = NaN
       /\ load_bookings(bookings).rows[i]["id"] = "u1"
  /\ \E i \in DOMAIN load_bookings(bookings).rows :
       load_bookings(bookings).rows[i]["status"] = "Foo"

\* C8: the row is in its table before send_to_make is called; a submission
\* calls send_to_make once, which posts at most once and not at all without a
\* URL, and never raises; after it the row is still in its table.
C8_PersistThenNotifyOnce ==
  /\ pc = "notify" => sent = 0 /\ posts = 0 /\ RowStored
  /\ last.op = "send_to_make" =>
       /\ pc = "idle" /\ sent = 1 /\ posts <= 1
       /\ last.outcome \in {"no_url", "ok", "status", "exception"}
       /\ (last.outcome = "no_url" <=> posts = 0)
       /\ RowStored

\* The POST of a stored row has raised.
C8_Witness == last.op = "send_to_make" /\ last.outcome = "exception" /\ RowStored

\* C10: a session's save writes the frame that session loaded, with its one
\* change, whatever the other session has saved since; no session waits for
\* the other to finish.
C10_LastWriterWins ==
  /\ [][\A s \in Sessions :
          session[s].at # "idle" /\ session'[s].at = "idle"
            => bookings'.rows = to_csv(session[s].df).rows]_vars
  /\ [](\A s \in Sessions :
          /\ session[s].at = "append" => ENABLED append_save(s)
          /\ session[s].at = "kanban" => ENABLED kanban_save(s))

\* A booking whose save was reported is not in the table.
C10_Witness == \E id \in acked : id \notin Ids(load_bookings(bookings))

====
